---- MODULE Spec2Model ----
(***************************************************************************)
(* Model of src/main_integer.c: the FreeRTOS integer-math demo.            *)
(*                                                                         *)
(* One worker task per slot (vCompeteingIntMathTask) repeats a fixed       *)
(* calculation and writes pdTRUE into its slot of xTaskCheck; the monitor  *)
(* task (prvMonitorTask) polls xPerformStatusCheck, and on a request       *)
(* sweeps the slots (xAreIntegerMathsTaskStillRunning) and prints PASS or  *)
(* FAIL; the timer callback and the keyboard handler raise the request.    *)
(*                                                                         *)
(* Every C statement that touches shared state is one action, so that the  *)
(* interleavings the scheduler allows are the interleavings of the model.  *)
(* The scheduler is the FreeRTOS fixed-priority preemptive one: a task     *)
(* runs only while no task of higher priority is ready, and nothing        *)
(* preempts a task inside a critical section.                              *)
(***************************************************************************)
EXTENDS Integers, Sequences, FiniteSets

(* ------------------------------------------------------------------ *)
(* Bounds of the model (not program constants)                        *)
(* ------------------------------------------------------------------ *)
(* the events of the environment explored: timer expiries, key presses and
   corruptions of a worker's lValue, together *)
MaxEvents == 3
(* the same, in the behaviours explored for progress *)
MaxLiveEvents == 2

(* ------------------------------------------------------------------ *)
(* Program constants                                                  *)
(* ------------------------------------------------------------------ *)
intgCONST1 == 123
intgCONST2 == 234567
intgCONST3 == -3
intgCONST4 == 7

intgNUMBER_OF_TASKS == 1

tskIDLE_PRIORITY == 0
mainMONITOR_TASK_PRIORITY == tskIDLE_PRIORITY + 2
(* a worker created at the monitor's priority: the two are time-sliced *)
mainINTEGER_TASK_PRIORITY_SameAsMonitor == tskIDLE_PRIORITY + 2
mainINTEGER_TASK_PRIORITY == tskIDLE_PRIORITY + 1

mainSTATUS_KEY == "s"
mainRESTART_KEY == "r"
(* the keys the keyboard simulator may deliver; "x" stands for any other key *)
Keys == {mainSTATUS_KEY, mainRESTART_KEY, "x"}

(* the worker slots: the indexes of xTaskCheck *)
TaskIds == 0 .. (intgNUMBER_OF_TASKS - 1)

(* ------------------------------------------------------------------ *)
(* Arithmetic of a 32-bit signed long                                 *)
(* ------------------------------------------------------------------ *)
Abs(x) == IF x < 0 THEN -x ELSE x

(* the largest value of a 16-bit type, as on a port whose long is narrower *)
LONG_MAX_16Bit == 2147483647 \div 65536
(* the range of a 32-bit signed long; arithmetic that leaves it is undefined
   in C and stops the model checker, whose integers have the same width *)
LONG_MAX == 2147483647
LONG_MIN == -LONG_MAX - 1
InLong(x) == LONG_MIN <= x /\ x <= LONG_MAX

(* whether a + b, a * b and a / b of two longs are again longs, decided
   without forming the result; for the product the test leaves out only
   a * b = LONG_MIN *)
AddFits(a, b) == IF b >= 0 THEN a <= LONG_MAX - b ELSE a >= LONG_MIN - b
MulFits(a, b) ==
    \/ b = 0
    \/ /\ a <= LONG_MAX \div Abs(b)
       /\ a >= -(LONG_MAX \div Abs(b))
DivFits(a, b) == b # 0 /\ ~(a = LONG_MIN /\ b = -1)

(* floor division: what a port of the code to a flooring language computes *)
FloorDiv(a, b) == a \div b
(* C's signed division: the quotient is truncated toward zero *)
TruncDiv(a, b) ==
    IF (a < 0) = (b < 0) THEN Abs(a) \div Abs(b) ELSE -(Abs(a) \div Abs(b))

(* the calculation, statement by statement *)
CalcAdd(v) == v + intgCONST2
CalcMul(v) == v * intgCONST3
CalcDiv(v) == TruncDiv(v, intgCONST4)

intgEXPECTED_ANSWER ==
    TruncDiv((intgCONST1 + intgCONST2) * intgCONST3, intgCONST4)

(* the amounts by which a faulty context switch corrupts lValue *)
FaultDeltas == {1, 8}

(* ------------------------------------------------------------------ *)
(* State                                                              *)
(* ------------------------------------------------------------------ *)
VARIABLES
    xTaskCheck,           \* [TaskIds -> BOOLEAN], the worker slots
    xPerformStatusCheck,  \* the pending-check flag
    ulStatusCheckCount,   \* static counter of prvMonitorTask
    wPC,                  \* [TaskIds -> position of the worker in its loop]
    lValue,               \* [TaskIds -> the worker's lValue]
    sError,               \* [TaskIds -> the worker's error latch]
    mPC,                  \* position of the monitor task
    sTask,                \* loop index of the sweep
    xReturn,              \* result being built by the sweep
    xTasksStatus,         \* result of the last sweep, as the monitor holds it
    kPC,                  \* position of the keyboard handler
    critical,             \* owner of the critical section, or NoOwner
    console,              \* the lines printed so far
    nEvents,              \* timer callbacks, key presses and corruptions so far
    faulted,              \* history: a corruption of lValue has happened
    nSets,                \* history: writes of pdTRUE to xPerformStatusCheck
    nConflated,           \* history: those that found the flag already pdTRUE
    signalled,            \* history: slots written since the last sweep began
    unseen,               \* history: slots written and not yet read by a sweep
    iterated,             \* history: workers that ended an iteration since the last sweep began
    swept,                \* history: signalled and iterated as the running sweep found them
    prevSwept,            \* history: swept of the sweep before
    prevResult,           \* history: result of the sweep before
    diverged,             \* history: workers whose comparison has found a wrong value
    sweepsAfterDivergence, \* history: [TaskIds -> sweeps begun since then, at most 2]
    nSweeps               \* history: sweeps begun so far

progVars == <<xTaskCheck, xPerformStatusCheck, ulStatusCheckCount, wPC, lValue,
              sError, mPC, sTask, xReturn, xTasksStatus, kPC, critical, console>>
envVars == <<nEvents, faulted>>
histVars == <<nSets, nConflated, signalled, unseen, iterated, swept, prevSwept,
              prevResult, diverged, sweepsAfterDivergence, nSweeps>>
vars == <<progVars, envVars, histVars>>

NoOwner == <<"none", 0>>
MonitorId == <<"monitor", 0>>
KeyboardId == <<"keyboard", 0>>
WorkerId(w) == <<"worker", w>>

AllFalse == [w \in TaskIds |-> FALSE]
Line(m, n) == [msg |-> m, n |-> n]

Init ==
    /\ xTaskCheck = AllFalse
    /\ xPerformStatusCheck = FALSE
    /\ ulStatusCheckCount = 0
    /\ wPC = [w \in TaskIds |-> "load"]
    /\ lValue = [w \in TaskIds |-> 0]
    /\ sError = AllFalse
    /\ mPC = "poll"
    /\ sTask = 0
    /\ xReturn = TRUE
    /\ xTasksStatus = FALSE
    /\ kPC = "idle"
    /\ critical = NoOwner
    /\ console = <<>>
    /\ nEvents = 0
    /\ faulted = FALSE
    /\ nSets = 0
    /\ nConflated = 0
    /\ signalled = AllFalse
    /\ unseen = AllFalse
    /\ iterated = AllFalse
    /\ swept = [signals |-> AllFalse, iters |-> AllFalse]
    /\ prevSwept = [signals |-> AllFalse, iters |-> AllFalse]
    /\ prevResult = FALSE
    /\ diverged = AllFalse
    /\ sweepsAfterDivergence = [w \in TaskIds |-> 0]
    /\ nSweeps = 0

(* ------------------------------------------------------------------ *)
(* Scheduling                                                         *)
(* ------------------------------------------------------------------ *)
(* the monitor is blocked only inside vTaskDelay; workers never block *)
MonitorReady == mPC # "delay"

WorkerMayRun(w) ==
    /\ critical \in {NoOwner, WorkerId(w)}
    /\ MonitorReady => mainMONITOR_TASK_PRIORITY <= mainINTEGER_TASK_PRIORITY

MonitorMayRun ==
    /\ critical \in {NoOwner, MonitorId}
    /\ MonitorReady
    /\ mainINTEGER_TASK_PRIORITY <= mainMONITOR_TASK_PRIORITY

(* ------------------------------------------------------------------ *)
(* The worker task: vCompeteingIntMathTask                            *)
(* ------------------------------------------------------------------ *)
WorkerFrame ==
    UNCHANGED <<xPerformStatusCheck, ulStatusCheckCount, mPC, sTask, xReturn,
                xTasksStatus, kPC, console, envVars, nSets, nConflated, swept,
                prevSwept, prevResult, sweepsAfterDivergence, nSweeps>>

(* lValue = intgCONST1; *)
Worker_Load(w) ==
    /\ WorkerMayRun(w) /\ wPC[w] = "load"
    /\ lValue' = [lValue EXCEPT ![w] = intgCONST1]
    /\ wPC' = [wPC EXCEPT ![w] = "add"]
    /\ UNCHANGED <<xTaskCheck, sError, critical, signalled, unseen, iterated, diverged>>
    /\ WorkerFrame

(* lValue += intgCONST2; *)
Worker_Add(w) ==
    /\ WorkerMayRun(w) /\ wPC[w] = "add"
    /\ lValue' = [lValue EXCEPT ![w] = CalcAdd(lValue[w])]
    /\ wPC' = [wPC EXCEPT ![w] = "mul"]
    /\ UNCHANGED <<xTaskCheck, sError, critical, signalled, unseen, iterated, diverged>>
    /\ WorkerFrame

(* lValue *= intgCONST3; *)
Worker_Mul(w) ==
    /\ WorkerMayRun(w) /\ wPC[w] = "mul"
    /\ lValue' = [lValue EXCEPT ![w] = CalcMul(lValue[w])]
    /\ wPC' = [wPC EXCEPT ![w] = "div"]
    /\ UNCHANGED <<xTaskCheck, sError, critical, signalled, unseen, iterated, diverged>>
    /\ WorkerFrame

(* lValue /= intgCONST4; *)
Worker_Div(w) ==
    /\ WorkerMayRun(w) /\ wPC[w] = "div"
    /\ lValue' = [lValue EXCEPT ![w] = CalcDiv(lValue[w])]
    /\ wPC' = [wPC EXCEPT ![w] = "cmp"]
    /\ UNCHANGED <<xTaskCheck, sError, critical, signalled, unseen, iterated, diverged>>
    /\ WorkerFrame

(* a latch that follows the last comparison instead of staying set *)
ErrorAfterCompare_Unlatched(w) == lValue[w] # intgEXPECTED_ANSWER
(* if( lValue != intgEXPECTED_ANSWER ) sError = pdTRUE;  -- the value of sError after it *)
ErrorAfterCompare(w) == sError[w] \/ lValue[w] # intgEXPECTED_ANSWER

Worker_Compare(w) ==
    /\ WorkerMayRun(w) /\ wPC[w] = "cmp"
    /\ sError' = [sError EXCEPT ![w] = ErrorAfterCompare(w)]
    /\ diverged' = [diverged EXCEPT ![w] = @ \/ lValue[w] # intgEXPECTED_ANSWER]
    /\ wPC' = [wPC EXCEPT ![w] = "test"]
    /\ UNCHANGED <<xTaskCheck, lValue, critical, signalled, unseen, iterated>>
    /\ WorkerFrame

(* a worker that signals whatever its error latch holds *)
Worker_TestError_AlwaysSignals(w) ==
    /\ WorkerMayRun(w) /\ wPC[w] = "test"
    /\ wPC' = [wPC EXCEPT ![w] = "enter"]
    /\ UNCHANGED <<xTaskCheck, lValue, sError, critical, signalled, unseen, iterated, diverged>>
    /\ WorkerFrame
(* if( sError == pdFALSE ) { ... } ; otherwise the iteration ends here *)
Worker_TestError(w) ==
    /\ WorkerMayRun(w) /\ wPC[w] = "test"
    /\ IF sError[w] = FALSE
       THEN /\ wPC' = [wPC EXCEPT ![w] = "enter"]
            /\ UNCHANGED iterated
       ELSE /\ wPC' = [wPC EXCEPT ![w] = "load"]
            /\ iterated' = [iterated EXCEPT ![w] = TRUE]
    /\ UNCHANGED <<xTaskCheck, lValue, sError, critical, signalled, unseen, diverged>>
    /\ WorkerFrame

(* a worker that writes its slot without entering the critical section *)
Worker_EnterCritical_Omitted(w) ==
    /\ WorkerMayRun(w) /\ wPC[w] = "enter"
    /\ wPC' = [wPC EXCEPT ![w] = "set"]
    /\ UNCHANGED <<xTaskCheck, lValue, sError, critical, signalled, unseen, iterated, diverged>>
    /\ WorkerFrame
(* portENTER_CRITICAL(); *)
Worker_EnterCritical(w) ==
    /\ WorkerMayRun(w) /\ wPC[w] = "enter"
    /\ critical = NoOwner
    /\ critical' = WorkerId(w)
    /\ wPC' = [wPC EXCEPT ![w] = "set"]
    /\ UNCHANGED <<xTaskCheck, lValue, sError, signalled, unseen, iterated, diverged>>
    /\ WorkerFrame

(* *pxTaskHasExecuted = pdTRUE; *)
Worker_Signal(w) ==
    /\ WorkerMayRun(w) /\ wPC[w] = "set"
    /\ xTaskCheck' = [xTaskCheck EXCEPT ![w] = TRUE]
    /\ signalled' = [signalled EXCEPT ![w] = TRUE]
    /\ unseen' = [unseen EXCEPT ![w] = TRUE]
    /\ wPC' = [wPC EXCEPT ![w] = "exit"]
    /\ UNCHANGED <<lValue, sError, critical, iterated, diverged>>
    /\ WorkerFrame

(* portEXIT_CRITICAL(); and the iteration ends *)
Worker_ExitCritical(w) ==
    /\ WorkerMayRun(w) /\ wPC[w] = "exit"
    /\ critical' = IF critical = WorkerId(w) THEN NoOwner ELSE critical
    /\ wPC' = [wPC EXCEPT ![w] = "load"]
    /\ iterated' = [iterated EXCEPT ![w] = TRUE]
    /\ UNCHANGED <<xTaskCheck, lValue, sError, signalled, unseen, diverged>>
    /\ WorkerFrame

(* A context switch that fails to restore the worker's partial result: the
   fault the calculation exists to detect.  It strikes while lValue holds a
   partial or final value that is still to be used. *)
ContextFault(w) ==
    /\ nEvents < MaxEvents
    /\ critical = NoOwner
    /\ wPC[w] \in {"add", "mul", "div", "cmp"}
    /\ \E d \in FaultDeltas : lValue' = [lValue EXCEPT ![w] = lValue[w] + d]
    /\ nEvents' = nEvents + 1
    /\ faulted' = TRUE
    /\ UNCHANGED <<xTaskCheck, xPerformStatusCheck, ulStatusCheckCount, wPC, sError,
                   mPC, sTask, xReturn, xTasksStatus, kPC, critical, console,
                   histVars>>

(* ------------------------------------------------------------------ *)
(* The monitor task: prvMonitorTask, and the sweep it calls,          *)
(* xAreIntegerMathsTaskStillRunning                                   *)
(* ------------------------------------------------------------------ *)
MonitorFrame ==
    UNCHANGED <<wPC, lValue, sError, kPC, envVars, nSets, nConflated>>

Min(a, b) == IF a < b THEN a ELSE b

(* a monitor that goes back to sleep whatever the flag holds *)
Monitor_Poll_IgnoresFlag ==
    /\ MonitorMayRun /\ mPC = "poll"
    /\ mPC' = "delay"
    /\ UNCHANGED <<xTaskCheck, xPerformStatusCheck, ulStatusCheckCount, sTask,
                   xReturn, xTasksStatus, critical, console, signalled, unseen,
                   iterated, swept, prevSwept, prevResult, diverged, sweepsAfterDivergence, nSweeps>>
    /\ MonitorFrame
(* while( xPerformStatusCheck == pdFALSE ) { vTaskDelay( ... ); } *)
Monitor_Poll ==
    /\ MonitorMayRun /\ mPC = "poll"
    /\ mPC' = IF xPerformStatusCheck = FALSE THEN "delay" ELSE "clear"
    /\ UNCHANGED <<xTaskCheck, xPerformStatusCheck, ulStatusCheckCount, sTask,
                   xReturn, xTasksStatus, critical, console, signalled, unseen,
                   iterated, swept, prevSwept, prevResult, diverged, sweepsAfterDivergence, nSweeps>>
    /\ MonitorFrame

(* the delay of vTaskDelay runs out: the monitor is ready again *)
Monitor_DelayExpires ==
    /\ mPC = "delay" /\ critical = NoOwner
    /\ mPC' = "poll"
    /\ UNCHANGED <<xTaskCheck, xPerformStatusCheck, ulStatusCheckCount, sTask,
                   xReturn, xTasksStatus, critical, console, signalled, unseen,
                   iterated, swept, prevSwept, prevResult, diverged, sweepsAfterDivergence, nSweeps>>
    /\ MonitorFrame

(* a monitor that forgets to reset the flag *)
FlagAfterConsume_NotReset == xPerformStatusCheck
(* xPerformStatusCheck = pdFALSE; *)
FlagAfterConsume == FALSE

Monitor_ClearFlag ==
    /\ MonitorMayRun /\ mPC = "clear"
    /\ xPerformStatusCheck' = FlagAfterConsume
    /\ mPC' = "call"
    /\ UNCHANGED <<xTaskCheck, ulStatusCheckCount, sTask, xReturn, xTasksStatus,
                   critical, console, signalled, unseen, iterated, swept,
                   prevSwept, prevResult, diverged, sweepsAfterDivergence, nSweeps>>
    /\ MonitorFrame

(* xTasksStatus = xAreIntegerMathsTaskStillRunning(): the call, and
   BaseType_t xReturn = pdTRUE; sTask = 0 *)
Sweep_Begin ==
    /\ MonitorMayRun /\ mPC = "call"
    /\ xReturn' = TRUE
    /\ sTask' = 0
    /\ mPC' = "loop"
    /\ prevSwept' = swept
    /\ prevResult' = xTasksStatus
    /\ swept' = [signals |-> signalled, iters |-> iterated]
    /\ signalled' = AllFalse
    /\ iterated' = AllFalse
    /\ sweepsAfterDivergence' =
          [w \in TaskIds |-> IF diverged[w] THEN Min(2, sweepsAfterDivergence[w] + 1) ELSE 0]
    /\ UNCHANGED <<xTaskCheck, xPerformStatusCheck, ulStatusCheckCount,
                   xTasksStatus, critical, console, unseen, diverged>>
    /\ nSweeps' = nSweeps + 1
    /\ MonitorFrame

(* sTask < intgNUMBER_OF_TASKS, and return xReturn when it fails *)
Sweep_Loop ==
    /\ MonitorMayRun /\ mPC = "loop"
    /\ IF sTask < intgNUMBER_OF_TASKS
       THEN /\ mPC' = "read"
            /\ UNCHANGED xTasksStatus
       ELSE /\ mPC' = "enter"
            /\ xTasksStatus' = xReturn
    /\ UNCHANGED <<xTaskCheck, xPerformStatusCheck, ulStatusCheckCount, sTask,
                   xReturn, critical, console, signalled, unseen, iterated,
                   swept, prevSwept, prevResult, diverged, sweepsAfterDivergence, nSweeps>>
    /\ MonitorFrame

(* a sweep whose test is inverted: a slot found set counts as an error *)
ReturnAfterRead_Inverted(t) == IF xTaskCheck[t] = TRUE THEN FALSE ELSE xReturn
(* if( xTaskCheck[ sTask ] == pdFALSE ) xReturn = pdFALSE;  -- xReturn after it *)
ReturnAfterRead(t) == IF xTaskCheck[t] = FALSE THEN FALSE ELSE xReturn

(* a sweep that leaves its loop at the first slot it finds pdFALSE *)
Sweep_Read_BreaksOnFalse ==
    /\ MonitorMayRun /\ mPC = "read"
    /\ IF xTaskCheck[sTask] = FALSE
       THEN /\ xReturn' = FALSE
            /\ xTasksStatus' = FALSE
            /\ mPC' = "enter"
       ELSE /\ xReturn' = xReturn
            /\ xTasksStatus' = xTasksStatus
            /\ mPC' = "reset"
    /\ unseen' = [unseen EXCEPT ![sTask] = IF xTaskCheck[sTask] THEN FALSE ELSE @]
    /\ UNCHANGED <<xTaskCheck, xPerformStatusCheck, ulStatusCheckCount, sTask,
                   critical, console, signalled, iterated, swept,
                   prevSwept, prevResult, diverged, sweepsAfterDivergence, nSweeps>>
    /\ MonitorFrame
(* if( xTaskCheck[ xTask ] == pdFALSE ) ... inside the for loop: one slot read *)
Sweep_Read ==
    /\ MonitorMayRun /\ mPC = "read"
    /\ xReturn' = ReturnAfterRead(sTask)
    /\ unseen' = [unseen EXCEPT ![sTask] = IF xTaskCheck[sTask] THEN FALSE ELSE @]
    /\ mPC' = "reset"
    /\ UNCHANGED <<xTaskCheck, xPerformStatusCheck, ulStatusCheckCount, sTask,
                   xTasksStatus, critical, console, signalled, iterated, swept,
                   prevSwept, prevResult, diverged, sweepsAfterDivergence, nSweeps>>
    /\ MonitorFrame

(* a sweep that reads the slot and leaves it as it is *)
SlotAfterReset_Kept(t) == xTaskCheck[t]
(* xTaskCheck[ sTask ] = pdFALSE;  -- the slot after it *)
SlotAfterReset(t) == FALSE

Sweep_Reset ==
    /\ MonitorMayRun /\ mPC = "reset"
    /\ xTaskCheck' = [xTaskCheck EXCEPT ![sTask] = SlotAfterReset(sTask)]
    /\ sTask' = sTask + 1
    /\ mPC' = "loop"
    /\ UNCHANGED <<xPerformStatusCheck, ulStatusCheckCount, xReturn, xTasksStatus,
                   critical, console, signalled, unseen, iterated, swept,
                   prevSwept, prevResult, diverged, sweepsAfterDivergence, nSweeps>>
    /\ MonitorFrame

(* taskENTER_CRITICAL(); *)
Monitor_EnterCritical ==
    /\ MonitorMayRun /\ mPC = "enter"
    /\ critical = NoOwner
    /\ critical' = MonitorId
    /\ mPC' = "report"
    /\ UNCHANGED <<xTaskCheck, xPerformStatusCheck, ulStatusCheckCount, sTask,
                   xReturn, xTasksStatus, console, signalled, unseen, iterated,
                   swept, prevSwept, prevResult, diverged, sweepsAfterDivergence, nSweeps>>
    /\ MonitorFrame

(* a report with the two branches swapped *)
ReportText_Swapped == IF xTasksStatus = TRUE THEN "FAIL" ELSE "PASS"
(* if( xTasksStatus == pdTRUE ) printf( "... PASS" ) else printf( "... FAIL ..." ) *)
ReportText == IF xTasksStatus = TRUE THEN "PASS" ELSE "FAIL"

(* a report that prints the counter as it was before the increment *)
Monitor_Report_OldLabel ==
    /\ MonitorMayRun /\ mPC = "report"
    /\ ulStatusCheckCount' = ulStatusCheckCount + 1
    /\ console' = Append(console, Line(ReportText, ulStatusCheckCount))
    /\ mPC' = "exit"
    /\ UNCHANGED <<xTaskCheck, xPerformStatusCheck, sTask, xReturn, xTasksStatus,
                   critical, signalled, unseen, iterated, swept, prevSwept,
                   prevResult, diverged, sweepsAfterDivergence, nSweeps>>
    /\ MonitorFrame
(* ulStatusCheckCount++; and the printf of the branch taken (the counter is a
   uint32_t: it wraps far beyond the number of requests explored) *)
Monitor_Report ==
    /\ MonitorMayRun /\ mPC = "report"
    /\ ulStatusCheckCount' = ulStatusCheckCount + 1
    /\ console' = Append(console, Line(ReportText, ulStatusCheckCount'))
    /\ mPC' = "exit"
    /\ UNCHANGED <<xTaskCheck, xPerformStatusCheck, sTask, xReturn, xTasksStatus,
                   critical, signalled, unseen, iterated, swept, prevSwept,
                   prevResult, diverged, sweepsAfterDivergence, nSweeps>>
    /\ MonitorFrame

(* taskEXIT_CRITICAL(); and back to the top of the loop *)
Monitor_ExitCritical ==
    /\ MonitorMayRun /\ mPC = "exit"
    /\ critical' = NoOwner
    /\ mPC' = "poll"
    /\ UNCHANGED <<xTaskCheck, xPerformStatusCheck, ulStatusCheckCount, sTask,
                   xReturn, xTasksStatus, console, signalled, unseen, iterated,
                   swept, prevSwept, prevResult, diverged, sweepsAfterDivergence, nSweeps>>
    /\ MonitorFrame

(* ------------------------------------------------------------------ *)
(* The producers of the request                                       *)
(* ------------------------------------------------------------------ *)
ProducerFrame ==
    UNCHANGED <<xTaskCheck, ulStatusCheckCount, wPC, lValue, sError, mPC, sTask,
                xReturn, xTasksStatus, faulted, signalled, unseen, iterated,
                swept, prevSwept, prevResult, diverged, sweepsAfterDivergence, nSweeps>>

(* a callback that inverts the flag instead of setting it *)
prvMonitorTimerCallback_Toggles ==
    /\ nEvents < MaxEvents
    /\ critical = NoOwner
    /\ xPerformStatusCheck' = ~xPerformStatusCheck
    /\ nEvents' = nEvents + 1
    /\ nSets' = nSets + 1
    /\ nConflated' = nConflated + (IF xPerformStatusCheck THEN 1 ELSE 0)
    /\ UNCHANGED <<kPC, critical, console>>
    /\ ProducerFrame
(* prvMonitorTimerCallback: xPerformStatusCheck = pdTRUE; run by the timer
   service task, which preempts every task that is outside a critical section *)
prvMonitorTimerCallback ==
    /\ nEvents < MaxEvents
    /\ critical = NoOwner
    /\ xPerformStatusCheck' = TRUE
    /\ nEvents' = nEvents + 1
    /\ nSets' = nSets + 1
    /\ nConflated' = nConflated + (IF xPerformStatusCheck THEN 1 ELSE 0)
    /\ UNCHANGED <<kPC, critical, console>>
    /\ ProducerFrame

(* vIntegerKeyboardInterruptHandler( xKeyPressed ): switch( xKeyPressed ) *)
Keyboard_Call ==
    /\ nEvents < MaxEvents
    /\ kPC = "idle" /\ critical = NoOwner
    /\ \E xKeyPressed \in Keys :
          kPC' = CASE xKeyPressed = mainSTATUS_KEY -> "s_enter"
                   [] xKeyPressed = mainRESTART_KEY -> "r_enter"
                   [] OTHER -> "default"
    /\ nEvents' = nEvents + 1
    /\ UNCHANGED <<xPerformStatusCheck, critical, console, nSets, nConflated>>
    /\ ProducerFrame

(* case mainSTATUS_KEY: taskENTER_CRITICAL(); *)
Keyboard_StatusEnter ==
    /\ kPC = "s_enter" /\ critical = NoOwner
    /\ critical' = KeyboardId
    /\ kPC' = "s_print"
    /\ UNCHANGED <<xPerformStatusCheck, console, nEvents, nSets, nConflated>>
    /\ ProducerFrame

(* printf( "Manual status check requested..." ); *)
Keyboard_StatusPrint ==
    /\ kPC = "s_print" /\ critical = KeyboardId
    /\ console' = Append(console, Line("MANUAL", 0))
    /\ kPC' = "s_exit"
    /\ UNCHANGED <<xPerformStatusCheck, critical, nEvents, nSets, nConflated>>
    /\ ProducerFrame

(* taskEXIT_CRITICAL(); *)
Keyboard_StatusExit ==
    /\ kPC = "s_exit" /\ critical = KeyboardId
    /\ critical' = NoOwner
    /\ kPC' = "s_set"
    /\ UNCHANGED <<xPerformStatusCheck, console, nEvents, nSets, nConflated>>
    /\ ProducerFrame

(* a manual request that also clears the slots, so that a check asked for
   with the key starts from other slots than one asked for by the timer *)
Keyboard_StatusSet_ResetsSlots ==
    /\ kPC = "s_set" /\ critical = NoOwner
    /\ xPerformStatusCheck' = TRUE
    /\ xTaskCheck' = AllFalse
    /\ nSets' = nSets + 1
    /\ nConflated' = nConflated + (IF xPerformStatusCheck THEN 1 ELSE 0)
    /\ kPC' = "idle"
    /\ UNCHANGED <<critical, console, nEvents>>
    /\ UNCHANGED <<ulStatusCheckCount, wPC, lValue, sError, mPC, sTask,
                   xReturn, xTasksStatus, faulted, signalled, unseen, iterated,
                   swept, prevSwept, prevResult, diverged, sweepsAfterDivergence, nSweeps>>
(* xPerformStatusCheck = pdTRUE; break; *)
Keyboard_StatusSet ==
    /\ kPC = "s_set" /\ critical = NoOwner
    /\ xPerformStatusCheck' = TRUE
    /\ nSets' = nSets + 1
    /\ nConflated' = nConflated + (IF xPerformStatusCheck THEN 1 ELSE 0)
    /\ kPC' = "idle"
    /\ UNCHANGED <<critical, console, nEvents>>
    /\ ProducerFrame

(* case mainRESTART_KEY: taskENTER_CRITICAL(); *)
Keyboard_RestartEnter ==
    /\ kPC = "r_enter" /\ critical = NoOwner
    /\ critical' = KeyboardId
    /\ kPC' = "r_print"
    /\ UNCHANGED <<xPerformStatusCheck, console, nEvents, nSets, nConflated>>
    /\ ProducerFrame

(* a restart that clears the error latches of the workers *)
Keyboard_RestartPrint_ResetsLatch ==
    /\ kPC = "r_print" /\ critical = KeyboardId
    /\ console' = console \o <<Line("RESTART", 0), Line("NOTE", 0)>>
    /\ kPC' = "r_exit"
    /\ sError' = AllFalse
    /\ UNCHANGED <<xPerformStatusCheck, critical, nEvents, nSets, nConflated>>
    /\ UNCHANGED <<xTaskCheck, ulStatusCheckCount, wPC, lValue, mPC, sTask,
                   xReturn, xTasksStatus, faulted, signalled, unseen, iterated,
                   swept, prevSwept, prevResult, diverged, sweepsAfterDivergence, nSweeps>>
(* printf( "Restarting integer math tasks..." ); printf( "Note: ..." ); *)
Keyboard_RestartPrint ==
    /\ kPC = "r_print" /\ critical = KeyboardId
    /\ console' = console \o <<Line("RESTART", 0), Line("NOTE", 0)>>
    /\ kPC' = "r_exit"
    /\ UNCHANGED <<xPerformStatusCheck, critical, nEvents, nSets, nConflated>>
    /\ ProducerFrame

(* taskEXIT_CRITICAL(); break; *)
Keyboard_RestartExit ==
    /\ kPC = "r_exit" /\ critical = KeyboardId
    /\ critical' = NoOwner
    /\ kPC' = "idle"
    /\ UNCHANGED <<xPerformStatusCheck, console, nEvents, nSets, nConflated>>
    /\ ProducerFrame

(* default: break; *)
Keyboard_Default ==
    /\ kPC = "default" /\ critical = NoOwner
    /\ kPC' = "idle"
    /\ UNCHANGED <<xPerformStatusCheck, critical, console, nEvents, nSets, nConflated>>
    /\ ProducerFrame

(* ------------------------------------------------------------------ *)
(* The system                                                         *)
(* ------------------------------------------------------------------ *)
Worker(w) ==
    \/ Worker_Load(w)
    \/ Worker_Add(w)
    \/ Worker_Mul(w)
    \/ Worker_Div(w)
    \/ Worker_Compare(w)
    \/ Worker_TestError(w)
    \/ Worker_EnterCritical(w)
    \/ Worker_Signal(w)
    \/ Worker_ExitCritical(w)

Monitor ==
    \/ Monitor_Poll
    \/ Monitor_DelayExpires
    \/ Monitor_ClearFlag
    \/ Sweep_Begin
    \/ Sweep_Loop
    \/ Sweep_Read
    \/ Sweep_Reset
    \/ Monitor_EnterCritical
    \/ Monitor_Report
    \/ Monitor_ExitCritical

vIntegerKeyboardInterruptHandler ==
    \/ Keyboard_Call
    \/ Keyboard_StatusEnter
    \/ Keyboard_StatusPrint
    \/ Keyboard_StatusExit
    \/ Keyboard_StatusSet
    \/ Keyboard_RestartEnter
    \/ Keyboard_RestartPrint
    \/ Keyboard_RestartExit
    \/ Keyboard_Default

Next ==
    \/ \E w \in TaskIds : Worker(w)
    \/ \E w \in TaskIds : ContextFault(w)
    \/ Monitor
    \/ prvMonitorTimerCallback
    \/ vIntegerKeyboardInterruptHandler

Spec == Init /\ [][Next]_vars

(* the steps the monitor takes by itself once it is ready *)
MonitorRuns ==
    \/ Monitor_Poll
    \/ Monitor_ClearFlag
    \/ Sweep_Begin
    \/ Sweep_Loop
    \/ Sweep_Read
    \/ Sweep_Reset
    \/ Monitor_EnterCritical
    \/ Monitor_Report
    \/ Monitor_ExitCritical

(* the steps by which a worker or the keyboard handler, once inside a
   critical section, leaves it *)
CriticalSectionRuns ==
    \/ \E w \in TaskIds : Worker_Signal(w) \/ Worker_ExitCritical(w)
    \/ Keyboard_StatusPrint
    \/ Keyboard_StatusExit
    \/ Keyboard_RestartPrint
    \/ Keyboard_RestartExit

(* What the scheduler guarantees: the monitor, the application task of the
   highest priority, runs whenever it is ready; a critical section, which
   nothing preempts, runs to its end; and the delay of vTaskDelay runs out
   at a tick, which is served as soon as no critical section is held. *)
(* the system with the events of the environment bounded by MaxLiveEvents *)
FairNext ==
    \/ \E w \in TaskIds : Worker(w)
    \/ \E w \in TaskIds : nEvents < MaxLiveEvents /\ ContextFault(w)
    \/ Monitor
    \/ nEvents < MaxLiveEvents /\ prvMonitorTimerCallback
    \/ vIntegerKeyboardInterruptHandler /\ nEvents' <= MaxLiveEvents

FairSpec ==
    /\ Init /\ [][FairNext]_vars
    /\ WF_vars(MonitorRuns)
    /\ WF_vars(CriticalSectionRuns)
    /\ SF_vars(Monitor_DelayExpires)

(* ------------------------------------------------------------------ *)
(* Properties                                                         *)
(* ------------------------------------------------------------------ *)
(* the monitor holds the result of the sweep it has just finished *)
SweepReturned == mPC \in {"enter", "report", "exit"}
(* the monitor has just printed its report and still holds the console *)
JustReported == mPC = "exit"
LastLine == console[Len(console)]

(* C1: no signal is lost.  A slot written by its worker and not yet read as
   pdTRUE by a sweep still holds pdTRUE: no sweep clears a signal it has not
   seen, whether the signal was written before the sweep or the worker was
   on its way to write it while the sweep ran. *)
C1_NoSignalLost ==
    \A w \in TaskIds : unseen[w] => xTaskCheck[w] = TRUE

(* a sweep has read the slot as pdTRUE and is about to clear it, while the
   worker, preempted between its test of sError and its critical section,
   is about to signal again *)
C1_Witness ==
    \E w \in TaskIds :
        /\ mPC = "reset" /\ sTask = w /\ xReturn = TRUE
        /\ wPC[w] = "enter" /\ ~unseen[w]

(* C2: a sweep returns pdTRUE exactly when every slot was signalled since
   the sweep before it began (since the start, for the first). *)
C2_SweepIffAllSignalled ==
    SweepReturned => ((xTasksStatus = TRUE) <=> (\A w \in TaskIds : swept.signals[w]))

(* a sweep after the first has returned pdTRUE *)
C2_Witness ==
    /\ mPC = "enter" /\ ulStatusCheckCount >= 1
    /\ xTasksStatus = TRUE /\ \A w \in TaskIds : swept.signals[w]

(* C3: once a worker's comparison has found a wrong value, every later step
   leaves its sError set and none of them writes its slot. *)
C3_LatchedForever ==
    [][\A w \in TaskIds :
          diverged[w] =>
             /\ sError'[w] = TRUE
             /\ ~(wPC[w] = "set" /\ wPC'[w] = "exit")
             /\ (xTaskCheck'[w] => xTaskCheck[w])]_vars

(* a latched worker has computed the expected answer in a later iteration *)
C3_Witness ==
    \E w \in TaskIds :
        /\ diverged[w] /\ sError[w]
        /\ wPC[w] = "test" /\ lValue[w] = intgEXPECTED_ANSWER

(* C4 as claimed: with no fault, whatever the order of the steps, no status
   check reports FAIL. *)
C4_Original ==
    (~faulted) => \A i \in 1 .. Len(console) : console[i].msg # "FAIL"

(* C4 as amended: with no error latched, a status check whose sweep was
   preceded, since the sweep before it began, by a completed iteration of
   every worker reports PASS. *)
C4_PassWhenWorkersRan ==
    (/\ JustReported
     /\ \A w \in TaskIds : ~sError[w] /\ swept.iters[w])
        => LastLine.msg = "PASS"

(* the second status check has reported PASS for workers that ran *)
C4_Witness ==
    /\ JustReported /\ ulStatusCheckCount >= 2
    /\ \A w \in TaskIds : ~sError[w] /\ swept.iters[w]
    /\ LastLine = Line("PASS", ulStatusCheckCount)

(* C5 as claimed: every sweep begun after a worker's computation diverged,
   the very next one included, reports FAIL. *)
C5_Original ==
    (JustReported /\ \E w \in TaskIds : sweepsAfterDivergence[w] >= 1)
        => LastLine.msg = "FAIL"

(* C5 as amended: after a worker's computation diverged, the next sweep
   reports FAIL unless the worker's slot still holds a signal written
   before the divergence, and every sweep after that one reports FAIL. *)
C5_FailAfterStaleSignal ==
    \A w \in TaskIds :
        (/\ JustReported
         /\ sweepsAfterDivergence[w] >= 1
         /\ (sweepsAfterDivergence[w] = 2 \/ ~swept.signals[w]))
            => LastLine.msg = "FAIL"

(* the second sweep after a divergence has been reported *)
C5_Witness ==
    /\ JustReported
    /\ \E w \in TaskIds : sweepsAfterDivergence[w] = 2
    /\ LastLine.msg = "FAIL"

(* the checks that a write of pdTRUE to the flag has caused or will cause:
   those reported, the one the monitor is performing, the one pending *)
ChecksOwed ==
    ulStatusCheckCount
    + (IF mPC \in {"call", "loop", "read", "reset", "enter", "report"} THEN 1 ELSE 0)
    + (IF xPerformStatusCheck THEN 1 ELSE 0)

(* C6: a request that finds the flag already pdTRUE causes no check of its
   own: the checks performed, in progress or pending are as many as the
   writes that found the flag pdFALSE, so two requests before the monitor
   consumes the first make the counter grow by 1. *)
C6_RequestsConflate ==
    ChecksOwed = nSets - nConflated

(* two requests were made before the monitor consumed the first, and one
   check, numbered 1, has been reported with nothing left pending *)
C6_Witness ==
    /\ nSets = 2 /\ nConflated = 1
    /\ JustReported /\ ulStatusCheckCount = 1
    /\ xPerformStatusCheck = FALSE

C8_Original ==
    \A w \in TaskIds :
        (~faulted /\ wPC[w] = "test")
            => (lValue[w] = -100537 /\ intgEXPECTED_ANSWER = -100537)

(* C8 as amended: the expected answer is -100581, a worker that nothing
   corrupts computes that value, and its comparison does not set sError. *)
C8_ExpectedAnswer ==
    \A w \in TaskIds :
        (~faulted /\ wPC[w] = "test")
            => /\ lValue[w] = -100581
               /\ intgEXPECTED_ANSWER = -100581
               /\ sError[w] = FALSE

(* a worker has finished an uncorrupted calculation and compared it *)
C8_Witness ==
    \E w \in TaskIds : ~faulted /\ wPC[w] = "test" /\ lValue[w] = -100581

(* C9: of two consecutive sweeps with every slot signalled before the
   first and no slot signalled between them, the first returns pdTRUE and
   the second pdFALSE. *)
C9_TrueThenFalse ==
    (/\ SweepReturned
     /\ \A w \in TaskIds : prevSwept.signals[w]
     /\ \A w \in TaskIds : ~swept.signals[w])
        => (prevResult = TRUE /\ xTasksStatus = FALSE)

(* the second of two such sweeps has returned *)
C9_Witness ==
    /\ mPC = "enter"
    /\ \A w \in TaskIds : prevSwept.signals[w] /\ ~swept.signals[w]
    /\ prevResult = TRUE /\ xTasksStatus = FALSE

(* a step of the keyboard handler called with the restart key or with a key
   that is neither the status key nor the restart key *)
RestartOrOtherKeyStep ==
    /\ kPC' # kPC
    /\ \/ kPC \in {"r_enter", "r_print", "r_exit", "default"}
       \/ kPC' \in {"r_enter", "default"}

(* C10: the keyboard handler called with the restart key or with any key
   but the status key changes no slot, no error latch, not the flag, not
   the counter, and neither creates a task nor moves one. *)
C10_RestartChangesNothing ==
    [][RestartOrOtherKeyStep =>
          UNCHANGED <<xTaskCheck, sError, xPerformStatusCheck, ulStatusCheckCount,
                      wPC, lValue, mPC, sTask, xReturn, xTasksStatus>>]_vars

(* the restart message has been printed while a worker is latched *)
C10_Witness ==
    kPC = "r_exit" /\ \E w \in TaskIds : sError[w]

(* C11: under fair scheduling every request is served.  The n-th write of
   pdTRUE that found the flag pdFALSE, whether it was made while the monitor
   slept or while it was checking after it had cleared the flag, is
   followed by the n-th report; the sweep of that report begins after the
   write, since the monitor clears the flag before it sweeps. *)
C11_EveryRequestServed ==
    \A n \in 1 .. MaxLiveEvents :
        (nSets - nConflated >= n) ~> (ulStatusCheckCount >= n)

(* a request was made while the monitor was checking, after it had cleared
   the flag, and the check it caused has been reported *)
C11_Witness ==
    /\ JustReported /\ ulStatusCheckCount = 2
    /\ nSets = 2 /\ nConflated = 0
    /\ prevSwept.iters = swept.iters /\ \A w \in TaskIds : ~swept.iters[w]

(* the status lines among the lines printed *)
IsStatusLine(l) == l.msg \in {"PASS", "FAIL"}
StatusLines == SelectSeq(console, IsStatusLine)
(* the monitor has begun a sweep that it has not reported yet *)
SweepUnreported == mPC \in {"loop", "read", "reset", "enter", "report"}

(* C12: a pass of the monitor through its check makes one sweep, adds 1 to
   the counter and prints one status line that carries the new value: the
   status lines printed are numbered 1, 2, 3, ... in order, they are as
   many as the counter says, the sweeps begun are the reported ones and the
   one in progress, the counter changes only by +1 and only together
   with one new status line, and the pass begins by clearing the flag. *)
C12_OneReportPerCheck ==
    /\ [](/\ Len(StatusLines) = ulStatusCheckCount
          /\ \A i \in 1 .. Len(StatusLines) : StatusLines[i].n = i
          /\ nSweeps = ulStatusCheckCount + (IF SweepUnreported THEN 1 ELSE 0))
    /\ [][/\ ulStatusCheckCount' \in {ulStatusCheckCount, ulStatusCheckCount + 1}
          /\ (ulStatusCheckCount' # ulStatusCheckCount) <=> (StatusLines' # StatusLines)
          /\ (nSweeps' # nSweeps) => (nSweeps' = nSweeps + 1 /\ mPC = "call")
          /\ (mPC = "clear" /\ mPC' = "call") => xPerformStatusCheck' = FALSE]_vars

(* two checks have been reported, with a line of the keyboard handler
   among the status lines *)
C12_Witness ==
    /\ JustReported /\ ulStatusCheckCount = 2
    /\ Len(console) = 3 /\ LastLine.n = 2

(* C13: the status line of a check says PASS exactly when the sweep of that
   check returned pdTRUE and FAIL otherwise; the step that prints it, FAIL
   or PASS, changes nothing but the counter and the console, and the
   monitor then leaves its critical section and polls again. *)
C13_ReportFollowsSweep ==
    /\ [](JustReported =>
             /\ xTasksStatus = xReturn
             /\ LastLine.msg = (IF xTasksStatus = TRUE THEN "PASS" ELSE "FAIL"))
    /\ [][/\ (ulStatusCheckCount' # ulStatusCheckCount) =>
                /\ mPC' = "exit"
                /\ UNCHANGED <<xTaskCheck, xPerformStatusCheck, wPC, lValue, sError,
                               sTask, xReturn, xTasksStatus, kPC, critical>>
          /\ (JustReported /\ mPC' # mPC) => (mPC' = "poll" /\ critical' = NoOwner)]_vars

(* a check has reported FAIL and a later one has reported PASS: the monitor
   went on after the failure *)
C13_Witness ==
    /\ JustReported /\ ulStatusCheckCount = 2
    /\ StatusLines[1].msg = "FAIL" /\ StatusLines[2].msg = "PASS"

(* C14: a sweep goes through all the slots and leaves each of them pdFALSE,
   whatever it read: when it has returned, its index has passed the last
   slot and no slot holds pdTRUE. *)
C14_SweepClearsEverySlot ==
    SweepReturned =>
        /\ sTask = intgNUMBER_OF_TASKS
        /\ \A w \in TaskIds : xTaskCheck[w] = FALSE

(* a sweep has returned pdTRUE: it read every slot as pdTRUE and cleared it *)
C14_Witness ==
    /\ mPC = "enter" /\ xTasksStatus = TRUE
    /\ \A w \in TaskIds : swept.signals[w] /\ xTaskCheck[w] = FALSE

(* C15: a slot goes from pdFALSE to pdTRUE only by the write of its own
   worker, inside its critical section, with the expected answer in lValue
   and no error latched; it goes from pdTRUE to pdFALSE only by the reset
   of the sweep; the timer callback and the keyboard handler change no
   slot. *)
C15_WhoChangesASlot ==
    [][/\ \A w \in TaskIds :
             /\ (xTaskCheck[w] = FALSE /\ xTaskCheck'[w] = TRUE) =>
                    /\ wPC[w] = "set" /\ wPC'[w] = "exit"
                    /\ critical = WorkerId(w)
                    /\ lValue[w] = intgEXPECTED_ANSWER
                    /\ sError[w] = FALSE
             /\ (xTaskCheck[w] = TRUE /\ xTaskCheck'[w] = FALSE) =>
                    /\ mPC = "reset" /\ mPC' = "loop" /\ sTask = w
       /\ (kPC' # kPC \/ nSets' # nSets) => xTaskCheck' = xTaskCheck]_vars

(* a slot that a sweep had cleared has been written again by its worker *)
C15_Witness ==
    \E w \in TaskIds :
        /\ wPC[w] = "exit" /\ xTaskCheck[w] = TRUE
        /\ nSweeps >= 1 /\ signalled[w]

(* C16: the timer callback is one step that can be taken whenever no task
   is inside a critical section; it sets xPerformStatusCheck to pdTRUE and
   changes nothing else of the program.  The flag goes from pdTRUE to
   pdFALSE only by the monitor's own clearing step. *)
TimerStep == nSets' # nSets /\ kPC' = kPC
C16_TimerOnlySetsFlag ==
    /\ []((critical = NoOwner /\ nEvents < MaxEvents) => ENABLED prvMonitorTimerCallback)
    /\ [][/\ TimerStep =>
                /\ xPerformStatusCheck' = TRUE
                /\ UNCHANGED <<xTaskCheck, ulStatusCheckCount, wPC, lValue, sError,
                               mPC, sTask, xReturn, xTasksStatus, kPC, critical, console>>
          /\ (xPerformStatusCheck = TRUE /\ xPerformStatusCheck' = FALSE) =>
                (mPC = "clear" /\ mPC' = "call")]_vars

(* the timer has fired while the monitor was inside a sweep, and the flag it
   set is still up: no key was ever pressed *)
C16_Witness ==
    /\ xPerformStatusCheck = TRUE /\ mPC = "read"
    /\ nSets = 2 /\ kPC = "idle" /\ console = << >>

(* C17: what a check does is fixed by the slots and the counter it starts
   from, not by who asked for it: for a request of the timer as for one of
   the status key, the line reported is PASS exactly when every slot was set
   when the sweep began, its number is the number of checks so far, and all
   the slots are pdFALSE afterwards. *)
C17_OutcomeIgnoresOrigin ==
    JustReported =>
        /\ LastLine = Line(IF \A w \in TaskIds : swept.signals[w] THEN "PASS" ELSE "FAIL",
                           nSweeps)
        /\ ulStatusCheckCount = nSweeps
        /\ \A w \in TaskIds : xTaskCheck[w] = FALSE

(* two checks from the same slots, the first asked for by the timer and the
   second by the status key, have reported the same outcome *)
C17_Witness ==
    /\ JustReported /\ nSets = 2 /\ nConflated = 0 /\ nEvents = 2
    /\ Len(console) = 3
    /\ console[1].msg = console[3].msg
    /\ IsStatusLine(console[1]) /\ ~IsStatusLine(console[2]) /\ IsStatusLine(console[3])
    /\ prevSwept.signals = swept.signals

(* C18: once a worker's value has come out wrong, at most one later sweep
   finds its slot set: from the second sweep begun after that on, the slot
   is pdFALSE in every state and every sweep returns pdFALSE. *)
C18_OneStaleSweepAtMost ==
    \A w \in TaskIds :
        sweepsAfterDivergence[w] = 2 =>
            /\ xTaskCheck[w] = FALSE
            /\ SweepReturned => xTasksStatus = FALSE

(* the first sweep after the fault returned pdTRUE on a signal written
   before it, and the second one has returned pdFALSE *)
C18_Witness ==
    \E w \in TaskIds :
        /\ sweepsAfterDivergence[w] = 2 /\ sError[w] = TRUE
        /\ SweepReturned /\ prevResult = TRUE /\ xTasksStatus = FALSE

(* C19: the monitor has completed no more checks, and begun no more sweeps,
   than the flag has been set; it leaves its polling loop only by reading
   the flag as pdTRUE, and only to clear it. *)
C19_NoCheckWithoutRequest ==
    /\ [](ulStatusCheckCount <= nSets /\ nSweeps <= nSets)
    /\ [][(mPC \in {"poll", "delay"} /\ mPC' \notin {"poll", "delay"}) =>
              /\ mPC = "poll" /\ mPC' = "clear"
              /\ xPerformStatusCheck = TRUE]_vars

(* three requests, one of them made while the flag was up, and two checks *)
C19_Witness ==
    /\ JustReported /\ ulStatusCheckCount = 2
    /\ nSets = 3 /\ nConflated = 1

(* C20: every value the calculation forms, 123 + 234567, then times -3, then
   divided by 7, is in the range of a 32-bit signed long: each statement is
   reached with operands whose result fits, so the long arithmetic gives the
   mathematical result. *)
C20_IntermediatesFit ==
    \A w \in TaskIds :
        /\ InLong(intgCONST1) /\ InLong(lValue[w])
        /\ wPC[w] = "add" => AddFits(lValue[w], intgCONST2)
        /\ wPC[w] = "mul" => MulFits(lValue[w], intgCONST3)
        /\ wPC[w] = "div" => DivFits(lValue[w], intgCONST4)
        /\ (wPC[w] = "mul" /\ ~faulted) => lValue[w] = 234690
        /\ (wPC[w] = "div" /\ ~faulted) => lValue[w] = -704070
        /\ (wPC[w] = "cmp" /\ ~faulted) => lValue[w] = -100581

(* a worker holds the product, the value of largest magnitude, and is about
   to divide it *)
C20_Witness ==
    \E w \in TaskIds :
        /\ wPC[w] = "div" /\ ~faulted
        /\ lValue[w] = (intgCONST1 + intgCONST2) * intgCONST3

====
